---- MODULE Spec2Model ----
(***************************************************************************)
(* The banking ledger of banking_system.py: Account (savings / checking), *)
(* Customer and Bank, with the two JSON files the Bank saves to.           *)
(*                                                                         *)
(* Money is held as an integer number of currency units and an interest   *)
(* rate as an integer number of hundredths (0.01 is 1), so that            *)
(* balance * rate is balance * interest_rate / 100.  Python's dicts are    *)
(* functions, Python's lists are sequences, None is the string "None".    *)
(*                                                                         *)
(* Spec is one run of the program with one customer (the Teller inputs),  *)
(* SpecBranch one run with two customers and accounts without a password, *)
(* SpecRestart the program started again and again over the same files.   *)
(***************************************************************************)
EXTENDS Integers, Sequences, FiniteSets, TLC

VARIABLES
    customers,   \* Bank._customers : customer_id -> Customer
    accounts,    \* Bank._accounts  : account_number -> Account
    disk,        \* the contents of customers.json and accounts.json
    call,        \* the call just made: operation, accounts named, returned value
    wrong_run    \* account_number -> the wrong passwords given in a row to
                 \* the account's verify_password, up to MaxFailedAttempts

vars == <<customers, accounts, disk, call, wrong_run>>

----------------------------------------------------------------------------
(* Bounds and input sets *)

MaxBal == 2            \* balances stay within -MaxBal .. MaxBal

MaxFailedAttempts == 3 \* verify_password: self._failed_attempts >= 3

\* a file is << >> while it does not exist and <<data>> once written
Missing == << >>
EmptyDict == [k \in {} |-> k]

\* The inputs the calls are made with
Teller ==
    [ customer_ids     |-> {"c1"},
      account_numbers  |-> {"a1", "a2"},   \* what str(uuid.uuid4())[:8] may be
      account_types    |-> {"savings", "Checking", "bogus"},
      initial_balances |-> {-1, 2},
      set_passwords    |-> {"pw"},         \* password given to create_account
      savings_kwargs   |-> {[interest_rate |-> 100]},
      checking_kwargs  |-> {[overdraft_limit |-> 1]},
      deposit_amounts  |-> {-1, 0, 1},
      amounts          |-> {-1, 0, 1, 2},  \* withdraw and transfer_funds
      passwords        |-> {"", "pw"},     \* what getpass may return
      choices          |-> {"1", "2", "3"},
      confirms         |-> {"CONFIRM", "no"} ]

\* Two customers, and accounts made without a password
Branch ==
    [ customer_ids     |-> {"c1", "c2"},
      account_numbers  |-> {"a1", "a2"},
      account_types    |-> {"savings"},
      initial_balances |-> {0},
      set_passwords    |-> {""},
      savings_kwargs   |-> {[interest_rate |-> 0]},
      checking_kwargs  |-> {EmptyDict},
      deposit_amounts  |-> {1},
      amounts          |-> {1},
      passwords        |-> {"", "pw"},
      choices          |-> {"1", "2"},
      confirms         |-> {"CONFIRM", "no"} ]

\* One customer, where the program is also started again between calls
Counter ==
    [ customer_ids     |-> {"c1"},
      account_numbers  |-> {"a1", "a2"},
      account_types    |-> {"savings", "checking"},
      initial_balances |-> {1},
      set_passwords    |-> {"pw"},
      savings_kwargs   |-> {[interest_rate |-> 0]},
      checking_kwargs  |-> {[overdraft_limit |-> 1]},
      deposit_amounts  |-> {1},
      amounts          |-> {2},
      passwords        |-> {"", "pw"},
      choices          |-> {"2"},
      confirms         |-> {"CONFIRM"} ]

----------------------------------------------------------------------------
(* Account *)

\* hashlib.sha256(password.encode()).hexdigest(): one digest per plaintext,
\* none of them the empty string
hash_password(password) ==
    CASE password = ""    -> "sha256()"
      [] password = "pw"  -> "sha256(pw)"
      [] password = "bad" -> "sha256(bad)"

\* a constructor that hashes the empty password too
Account_init_HashAlways(account_number, account_holder_id, initial_balance, password) ==
    [ account_number    |-> account_number,
      account_holder_id |-> account_holder_id,
      balance           |-> initial_balance,
      password_hash     |-> hash_password(password),
      failed_attempts   |-> 0,
      is_locked         |-> FALSE ]

Account_init(account_number, account_holder_id, initial_balance, password) ==
    [ account_number    |-> account_number,
      account_holder_id |-> account_holder_id,
      balance           |-> initial_balance,
      password_hash     |-> IF password # "" THEN hash_password(password) ELSE "",
      failed_attempts   |-> 0,
      is_locked         |-> FALSE ]

\* verify_password locking only after the fourth wrong password
\* (failed_attempts > 3)
verify_password_LateLock(acc, password) ==
    IF acc.is_locked
    THEN [acc |-> acc, ret |-> FALSE]
    ELSE IF acc.password_hash = hash_password(password)
         THEN [acc |-> [acc EXCEPT !.failed_attempts = 0], ret |-> TRUE]
         ELSE LET n == acc.failed_attempts + 1
              IN  [acc |-> [acc EXCEPT !.failed_attempts = n,
                                       !.is_locked = IF n > MaxFailedAttempts
                                                     THEN TRUE ELSE @],
                   ret |-> FALSE]

\* verify_password testing only that a password is set (if self._password_hash)
verify_password_NoCompare(acc, password) ==
    IF acc.is_locked
    THEN [acc |-> acc, ret |-> FALSE]
    ELSE IF acc.password_hash # ""
         THEN [acc |-> [acc EXCEPT !.failed_attempts = 0], ret |-> TRUE]
         ELSE LET n == acc.failed_attempts + 1
              IN  [acc |-> [acc EXCEPT !.failed_attempts = n,
                                       !.is_locked = IF n >= MaxFailedAttempts
                                                     THEN TRUE ELSE @],
                   ret |-> FALSE]

\* verify_password counting a wrong password on a locked account too
verify_password_CountsLocked(acc, password) ==
    IF acc.password_hash = hash_password(password) /\ ~acc.is_locked
    THEN [acc |-> [acc EXCEPT !.failed_attempts = 0], ret |-> TRUE]
    ELSE LET n == acc.failed_attempts + 1
         IN  [acc |-> [acc EXCEPT !.failed_attempts = n,
                                  !.is_locked = IF n >= MaxFailedAttempts
                                                THEN TRUE ELSE @],
              ret |-> FALSE]

\* verify_password locking at the second wrong password
\* (failed_attempts >= 2)
verify_password_EarlyLock(acc, password) ==
    IF acc.is_locked
    THEN [acc |-> acc, ret |-> FALSE]
    ELSE IF acc.password_hash = hash_password(password)
         THEN [acc |-> [acc EXCEPT !.failed_attempts = 0], ret |-> TRUE]
         ELSE LET n == acc.failed_attempts + 1
              IN  [acc |-> [acc EXCEPT !.failed_attempts = n,
                                       !.is_locked = IF n >= MaxFailedAttempts - 1
                                                     THEN TRUE ELSE @],
                   ret |-> FALSE]

\* returns the account after the call and the returned value
verify_password(acc, password) ==
    IF acc.is_locked
    THEN [acc |-> acc, ret |-> FALSE]
    ELSE IF acc.password_hash = hash_password(password)
         THEN [acc |-> [acc EXCEPT !.failed_attempts = 0], ret |-> TRUE]
         ELSE LET n == acc.failed_attempts + 1
              IN  [acc |-> [acc EXCEPT !.failed_attempts = n,
                                       !.is_locked = IF n >= MaxFailedAttempts
                                                     THEN TRUE ELSE @],
                   ret |-> FALSE]

SavingsAccount_init(account_number, account_holder_id, initial_balance, password, interest_rate) ==
    Account_init(account_number, account_holder_id, initial_balance, password)
        @@ [cls |-> "SavingsAccount", interest_rate |-> interest_rate]

CheckingAccount_init(account_number, account_holder_id, initial_balance, password, overdraft_limit) ==
    Account_init(account_number, account_holder_id, initial_balance, password)
        @@ [cls |-> "CheckingAccount", overdraft_limit |-> overdraft_limit]

\* a deposit that clears the lock-out
SavingsAccount_deposit_Unlocks(acc, amount) ==
    IF amount > 0
    THEN [acc |-> [acc EXCEPT !.balance = @ + amount, !.failed_attempts = 0,
                              !.is_locked = FALSE],
          ret |-> TRUE]
    ELSE [acc |-> acc, ret |-> FALSE]

\* a deposit that sets the balance (self._balance = amount)
SavingsAccount_deposit_Assign(acc, amount) ==
    IF amount > 0
    THEN [acc |-> [acc EXCEPT !.balance = amount], ret |-> TRUE]
    ELSE [acc |-> acc, ret |-> FALSE]

\* a deposit that a locked account refuses
SavingsAccount_deposit_RefusesLocked(acc, amount) ==
    IF amount > 0 /\ ~acc.is_locked
    THEN [acc |-> [acc EXCEPT !.balance = @ + amount], ret |-> TRUE]
    ELSE [acc |-> acc, ret |-> FALSE]

SavingsAccount_deposit(acc, amount) ==
    IF amount > 0
    THEN [acc |-> [acc EXCEPT !.balance = @ + amount], ret |-> TRUE]
    ELSE [acc |-> acc, ret |-> FALSE]

\* a withdraw that debits before it tests the balance
SavingsAccount_withdraw_DebitFirst(acc, amount) ==
    IF amount > 0
    THEN [acc |-> [acc EXCEPT !.balance = @ - amount],
          ret |-> acc.balance >= amount]
    ELSE [acc |-> acc, ret |-> FALSE]

\* a withdraw that does not test the sign of the amount
SavingsAccount_withdraw_NoSign(acc, amount) ==
    IF acc.balance >= amount
    THEN [acc |-> [acc EXCEPT !.balance = @ - amount], ret |-> TRUE]
    ELSE [acc |-> acc, ret |-> FALSE]

SavingsAccount_withdraw(acc, amount) ==
    IF amount > 0 /\ acc.balance >= amount
    THEN [acc |-> [acc EXCEPT !.balance = @ - amount], ret |-> TRUE]
    ELSE [acc |-> acc, ret |-> FALSE]

\* an apply_interest that sets the balance to the interest
\* (self._balance = self._balance * self._interest_rate)
apply_interest_Assign(acc) ==
    [acc EXCEPT !.balance = (@ * acc.interest_rate) \div 100]

\* self._balance += self._balance * self._interest_rate
apply_interest(acc) ==
    [acc EXCEPT !.balance = @ + (@ * acc.interest_rate) \div 100]

CheckingAccount_deposit(acc, amount) ==
    IF amount > 0
    THEN [acc |-> [acc EXCEPT !.balance = @ + amount], ret |-> TRUE]
    ELSE [acc |-> acc, ret |-> FALSE]

\* a withdraw that tests the balance before the debit against the limit
\* (self._balance >= -self._overdraft_limit)
CheckingAccount_withdraw_NoLimit(acc, amount) ==
    IF amount > 0 /\ acc.balance >= -acc.overdraft_limit
    THEN [acc |-> [acc EXCEPT !.balance = @ - amount], ret |-> TRUE]
    ELSE [acc |-> acc, ret |-> FALSE]

CheckingAccount_withdraw(acc, amount) ==
    IF amount > 0 /\ (acc.balance - amount) >= -acc.overdraft_limit
    THEN [acc |-> [acc EXCEPT !.balance = @ - amount], ret |-> TRUE]
    ELSE [acc |-> acc, ret |-> FALSE]

\* dynamic dispatch of account.deposit / account.withdraw
Account_deposit(acc, amount) ==
    IF acc.cls = "SavingsAccount"
    THEN SavingsAccount_deposit(acc, amount)
    ELSE CheckingAccount_deposit(acc, amount)

Account_withdraw(acc, amount) ==
    IF acc.cls = "SavingsAccount"
    THEN SavingsAccount_withdraw(acc, amount)
    ELSE CheckingAccount_withdraw(acc, amount)

Account_to_dict(acc) ==
    LET base == [ account_number    |-> acc.account_number,
                  account_holder_id |-> acc.account_holder_id,
                  balance           |-> acc.balance,
                  password_hash     |-> acc.password_hash,
                  failed_attempts   |-> acc.failed_attempts,
                  is_locked         |-> acc.is_locked ]
    IN  IF acc.cls = "SavingsAccount"
        THEN base @@ [type |-> "savings", interest_rate |-> acc.interest_rate]
        ELSE base @@ [type |-> "checking", overdraft_limit |-> acc.overdraft_limit]

----------------------------------------------------------------------------
(* Customer *)

Customer_init(customer_id, name, address) ==
    [ customer_id     |-> customer_id,
      name            |-> name,
      address         |-> address,
      account_numbers |-> << >> ]

InSeq(x, s) == \E i \in 1..Len(s) : s[i] = x

add_account_number(cust, account_number) ==
    IF ~InSeq(account_number, cust.account_numbers)
    THEN [cust EXCEPT !.account_numbers = Append(@, account_number)]
    ELSE cust

Customer_to_dict(cust) ==
    [ customer_id     |-> cust.customer_id,
      name            |-> cust.name,
      address         |-> cust.address,
      account_numbers |-> cust.account_numbers ]

----------------------------------------------------------------------------
(* Bank *)

\* what _save_data writes for the given mappings
save_data(custs, accs) ==
    [ customer_file |-> <<[cid \in DOMAIN custs |-> Customer_to_dict(custs[cid])]>>,
      account_file  |-> <<[anum \in DOMAIN accs |-> Account_to_dict(accs[anum])]>> ]

\* json.load of the file in _load_data, where a file that does not exist
\* leaves the mapping empty
json_load(file) == IF file = Missing THEN EmptyDict ELSE file[1]

RECURSIVE add_account_numbers(_, _)
\* for acc_num in customer_data['account_numbers']: customer.add_account_number(acc_num)
add_account_numbers(cust, nums) ==
    IF nums = << >>
    THEN cust
    ELSE add_account_numbers(add_account_number(cust, Head(nums)), Tail(nums))

\* the Customer _load_data makes of one record of the customer file
load_customer(customer_data) ==
    add_account_numbers(Customer_init(customer_data.customer_id, customer_data.name,
                                      customer_data.address),
                        customer_data.account_numbers)

\* a load that leaves the security fields as the constructor set them
load_account_Fresh(acc_data) ==
    IF acc_data.type = "savings"
    THEN SavingsAccount_init(acc_data.account_number, acc_data.account_holder_id,
                             acc_data.balance, "", acc_data.interest_rate)
    ELSE CheckingAccount_init(acc_data.account_number, acc_data.account_holder_id,
                              acc_data.balance, "", acc_data.overdraft_limit)

\* the Account _load_data makes of one record of the account file, of type
\* "savings" or "checking": built with no password, then given the saved
\* password_hash, failed_attempts and is_locked
load_account(acc_data) ==
    LET account ==
            IF acc_data.type = "savings"
            THEN SavingsAccount_init(acc_data.account_number, acc_data.account_holder_id,
                                     acc_data.balance, "", acc_data.interest_rate)
            ELSE CheckingAccount_init(acc_data.account_number, acc_data.account_holder_id,
                                      acc_data.balance, "", acc_data.overdraft_limit)
    IN  [account EXCEPT !.password_hash = acc_data.password_hash,
                        !.failed_attempts = acc_data.failed_attempts,
                        !.is_locked = acc_data.is_locked]

\* _load_data: the mappings a Bank starts with over the two files, each
\* object under its own id (which in a file _save_data wrote is its key); a
\* record of another type is skipped
load_data(files) ==
    LET customers_data == json_load(files.customer_file)
        accounts_data == json_load(files.account_file)
        loadable == {k \in DOMAIN accounts_data :
                        accounts_data[k].type \in {"savings", "checking"}}
        cids == {customers_data[k].customer_id : k \in DOMAIN customers_data}
        anums == {accounts_data[k].account_number : k \in loadable}
    IN  [ customers |->
              [cid \in cids |->
                  load_customer(customers_data[
                      CHOOSE k \in DOMAIN customers_data :
                          customers_data[k].customer_id = cid])],
          accounts |->
              [anum \in anums |->
                  load_account(accounts_data[
                      CHOOSE k \in loadable :
                          accounts_data[k].account_number = anum])] ]

\* the record kept of the call just made: the operation, the customer or
\* (source) account it names, the value returned, whether it got to
\* verify_password and whether it got to _save_data
Call(op, id, ret, verified, saved) ==
    [op |-> op, id |-> id, to |-> "-", amount |-> 0, ret |-> ret,
     verified |-> verified, saved |-> saved]

\* the same for a deposit, withdraw or transfer_funds that returned True,
\* with the amount it was given and the account a transfer credited
Moved(op, id, to, amount) ==
    [op |-> op, id |-> id, to |-> to, amount |-> amount, ret |-> "True",
     verified |-> op # "deposit", saved |-> TRUE]

\* the run of wrong passwords after verify_password(password) on acc
Attempt(run, acc, password) ==
    IF acc.password_hash = hash_password(password)
    THEN 0
    ELSE IF run < MaxFailedAttempts THEN run + 1 ELSE run

\* Bank() with neither file present
Init ==
    /\ customers = EmptyDict
    /\ accounts = EmptyDict
    /\ disk = [customer_file |-> Missing, account_file |-> Missing]
    /\ call = Call("Bank", "-", "None", FALSE, FALSE)
    /\ wrong_run = EmptyDict

\* Bank() when the program is started again over the files the last run left
Bank_init ==
    LET loaded == load_data(disk)
    IN  /\ customers' = loaded.customers
        /\ accounts' = loaded.accounts
        /\ wrong_run' = [n \in DOMAIN loaded.accounts |->
                             IF n \in DOMAIN wrong_run THEN wrong_run[n] ELSE 0]
        /\ UNCHANGED disk
        /\ call' = Call("Bank", "-", "None", FALSE, FALSE)

add_customer(customer_id) ==
    LET customer == Customer_init(customer_id, "name", "address")
    IN  IF customer_id \in DOMAIN customers
        THEN /\ UNCHANGED <<customers, accounts, disk, wrong_run>>
             /\ call' = Call("add_customer", customer_id, "False", FALSE, FALSE)
        ELSE /\ customers' = (customer_id :> customer) @@ customers
             /\ UNCHANGED <<accounts, wrong_run>>
             /\ disk' = save_data(customers', accounts')
             /\ call' = Call("add_customer", customer_id, "True", FALSE, TRUE)

\* account_type.lower()
lower(account_type) ==
    IF account_type = "Checking" THEN "checking" ELSE account_type

\* kwargs.get(key, default)
kwargs_get(kwargs, key, default) ==
    IF key \in DOMAIN kwargs THEN kwargs[key] ELSE default

\* uuid is what str(uuid.uuid4())[:8] returns in this call
create_account(customer_id, account_type, initial_balance, password, kwargs, uuid) ==
    LET account_number == uuid
        account ==
            IF lower(account_type) = "savings"
            THEN SavingsAccount_init(account_number, customer_id, initial_balance,
                                     password, kwargs_get(kwargs, "interest_rate", 1))
            ELSE CheckingAccount_init(account_number, customer_id, initial_balance,
                                      password, kwargs_get(kwargs, "overdraft_limit", 0))
    IN  IF customer_id \notin DOMAIN customers
        THEN /\ UNCHANGED <<customers, accounts, disk, wrong_run>>
             /\ call' = Call("create_account", customer_id, "None", FALSE, FALSE)
        ELSE IF lower(account_type) \notin {"savings", "checking"}
        THEN /\ UNCHANGED <<customers, accounts, disk, wrong_run>>
             /\ call' = Call("create_account", customer_id, "None", FALSE, FALSE)
        ELSE /\ accounts' = (account_number :> account) @@ accounts
             /\ wrong_run' = (account_number :> 0) @@ wrong_run
             /\ customers' = [customers EXCEPT ![customer_id] =
                                  add_account_number(@, account_number)]
             /\ disk' = save_data(customers', accounts')
             /\ call' = Call("create_account", customer_id, account_number, FALSE, TRUE)

deposit(account_number, amount) ==
    IF account_number \notin DOMAIN accounts
        THEN /\ UNCHANGED <<customers, accounts, disk, wrong_run>>
             /\ call' = Call("deposit", account_number, "False", FALSE, FALSE)
        ELSE LET d == Account_deposit(accounts[account_number], amount)
             IN  /\ d.acc.balance <= MaxBal
                 /\ accounts' = [accounts EXCEPT ![account_number] = d.acc]
                 /\ UNCHANGED <<customers, wrong_run>>
                 /\ IF d.ret
                    THEN /\ disk' = save_data(customers', accounts')
                         /\ call' = Moved("deposit", account_number, "-", amount)
                    ELSE /\ UNCHANGED disk
                         /\ call' = Call("deposit", account_number, "False", FALSE, FALSE)

\* a withdraw that asks for the password before it looks at the lock
withdraw_PromptFirst(account_number, amount, password) ==
    IF account_number \notin DOMAIN accounts
        THEN /\ UNCHANGED <<customers, accounts, disk, wrong_run>>
             /\ call' = Call("withdraw", account_number, "False", FALSE, FALSE)
        ELSE LET v == verify_password(accounts[account_number], password)
                 w == Account_withdraw(v.acc, amount)
             IN  /\ UNCHANGED <<customers, wrong_run>>
                 /\ IF ~v.ret
                    THEN /\ accounts' = [accounts EXCEPT ![account_number] = v.acc]
                         /\ disk' = save_data(customers', accounts')
                         /\ call' = Call("withdraw", account_number, "False", TRUE, TRUE)
                    ELSE /\ accounts' = [accounts EXCEPT ![account_number] = w.acc]
                         /\ IF w.ret
                            THEN /\ disk' = save_data(customers', accounts')
                                 /\ call' = Moved("withdraw", account_number, "-", amount)
                            ELSE /\ UNCHANGED disk
                                 /\ call' = Call("withdraw", account_number, "False", TRUE, FALSE)

\* password is what getpass returns when the call gets to ask for it
withdraw(account_number, amount, password) ==
    IF account_number \notin DOMAIN accounts
        THEN /\ UNCHANGED <<customers, accounts, disk, wrong_run>>
             /\ call' = Call("withdraw", account_number, "False", FALSE, FALSE)
        ELSE IF accounts[account_number].is_locked
        THEN /\ UNCHANGED <<customers, accounts, disk, wrong_run>>
             /\ call' = Call("withdraw", account_number, "False", FALSE, FALSE)
        ELSE LET v == verify_password(accounts[account_number], password)
                 w == Account_withdraw(v.acc, amount)
             IN  /\ UNCHANGED customers
                 /\ wrong_run' = [wrong_run EXCEPT ![account_number] =
                                      Attempt(@, accounts[account_number], password)]
                 /\ IF ~v.ret
                    THEN /\ accounts' = [accounts EXCEPT ![account_number] = v.acc]
                         /\ disk' = save_data(customers', accounts')
                         /\ call' = Call("withdraw", account_number, "False", TRUE, TRUE)
                    ELSE /\ accounts' = [accounts EXCEPT ![account_number] = w.acc]
                         /\ IF w.ret
                            THEN /\ disk' = save_data(customers', accounts')
                                 /\ call' = Moved("withdraw", account_number, "-", amount)
                            ELSE /\ UNCHANGED disk
                                 /\ call' = Call("withdraw", account_number, "False", TRUE, FALSE)

transfer_funds(from_acc_num, to_acc_num, amount, password) ==
    IF from_acc_num \notin DOMAIN accounts \/ to_acc_num \notin DOMAIN accounts
        THEN /\ UNCHANGED <<customers, accounts, disk, wrong_run>>
             /\ call' = Call("transfer_funds", from_acc_num, "False", FALSE, FALSE)
        ELSE IF amount <= 0
        THEN /\ UNCHANGED <<customers, accounts, disk, wrong_run>>
             /\ call' = Call("transfer_funds", from_acc_num, "False", FALSE, FALSE)
        ELSE IF accounts[from_acc_num].is_locked
        THEN /\ UNCHANGED <<customers, accounts, disk, wrong_run>>
             /\ call' = Call("transfer_funds", from_acc_num, "False", FALSE, FALSE)
        ELSE LET v == verify_password(accounts[from_acc_num], password)
                 verified == [accounts EXCEPT ![from_acc_num] = v.acc]
                 w == Account_withdraw(v.acc, amount)
                 withdrawn == [accounts EXCEPT ![from_acc_num] = w.acc]
                 \* to_acc is from_acc itself when the two numbers are the same
                 d == Account_deposit(withdrawn[to_acc_num], amount)
                 deposited == [withdrawn EXCEPT ![to_acc_num] = d.acc]
                 \* from_acc.deposit(amount) after a failed to_acc.deposit
                 r == Account_deposit(deposited[from_acc_num], amount)
                 rolled_back == [deposited EXCEPT ![from_acc_num] = r.acc]
             IN  /\ UNCHANGED customers
                 /\ wrong_run' = [wrong_run EXCEPT ![from_acc_num] =
                                      Attempt(@, accounts[from_acc_num], password)]
                 /\ IF ~v.ret
                    THEN /\ accounts' = verified
                         /\ disk' = save_data(customers', accounts')
                         /\ call' = Call("transfer_funds", from_acc_num, "False", TRUE, TRUE)
                    ELSE IF w.ret
                    THEN IF d.ret
                         THEN /\ d.acc.balance <= MaxBal
                              /\ accounts' = deposited
                              /\ disk' = save_data(customers', accounts')
                              /\ call' = Moved("transfer_funds", from_acc_num, to_acc_num, amount)
                         ELSE /\ accounts' = rolled_back
                              /\ UNCHANGED disk
                              /\ call' = Call("transfer_funds", from_acc_num, "False", TRUE, FALSE)
                    ELSE /\ accounts' = withdrawn
                         /\ UNCHANGED disk
                         /\ call' = Call("transfer_funds", from_acc_num, "False", TRUE, FALSE)

\* self._accounts[acc_num] for the customer's numbers that are in self._accounts
get_customer_accounts(customer_id) ==
    IF customer_id \notin DOMAIN customers
    THEN << >>
    ELSE LET nums == customers[customer_id].account_numbers
             kept == SelectSeq(nums, LAMBDA n : n \in DOMAIN accounts)
         IN  [i \in 1..Len(kept) |-> accounts[kept[i]]]

\* the balance apply_interest leaves can be held: a whole number within the range
InterestFits(acc) ==
    /\ (acc.balance * acc.interest_rate) % 100 = 0
    /\ apply_interest(acc).balance \in -MaxBal..MaxBal

apply_all_interest ==
    /\ \A n \in DOMAIN accounts :
           accounts[n].cls = "SavingsAccount" => InterestFits(accounts[n])
    /\ accounts' = [n \in DOMAIN accounts |->
                        IF accounts[n].cls = "SavingsAccount"
                        THEN apply_interest(accounts[n])
                        ELSE accounts[n]]
    /\ UNCHANGED <<customers, wrong_run>>
    /\ disk' = save_data(customers', accounts')
    /\ call' = Call("apply_all_interest", "-", "None", FALSE, TRUE)

\* a remove_customer that does not ask for CONFIRM when a balance is held
remove_customer_NoConfirm(customer_id, choice, confirm) ==
    LET customer == customers[customer_id]
        owned == {customer.account_numbers[i] : i \in 1..Len(customer.account_numbers)}
        cancelled ==
            /\ UNCHANGED <<customers, accounts, disk, wrong_run>>
            /\ call' = Call("remove_customer", customer_id, "False", FALSE, FALSE)
        removed(accs) ==
            /\ accounts' = accs
            /\ wrong_run' = [n \in DOMAIN accs |-> wrong_run[n]]
            /\ customers' = [cid \in DOMAIN customers \ {customer_id} |-> customers[cid]]
            /\ disk' = save_data(customers', accounts')
            /\ call' = Call("remove_customer", customer_id, "True", FALSE, TRUE)
    IN  IF customer_id \notin DOMAIN customers
        THEN cancelled
        ELSE IF customer.account_numbers = << >>
        THEN removed(accounts)
        ELSE IF choice = "1"
        THEN cancelled
        ELSE IF choice = "2"
        THEN removed([n \in DOMAIN accounts \ owned |-> accounts[n]])
        ELSE cancelled

\* a remove_customer that deletes the accounts before it reads the confirmation
remove_customer_DeleteFirst(customer_id, choice, confirm) ==
    LET customer == customers[customer_id]
        owned == {customer.account_numbers[i] : i \in 1..Len(customer.account_numbers)}
        accounts_with_balance ==
            {n \in owned \cap DOMAIN accounts : accounts[n].balance # 0}
        remaining == [n \in DOMAIN accounts \ owned |-> accounts[n]]
        cancelled ==
            /\ UNCHANGED <<customers, accounts, disk, wrong_run>>
            /\ call' = Call("remove_customer", customer_id, "False", FALSE, FALSE)
        removed(accs) ==
            /\ accounts' = accs
            /\ wrong_run' = [n \in DOMAIN accs |-> wrong_run[n]]
            /\ customers' = [cid \in DOMAIN customers \ {customer_id} |-> customers[cid]]
            /\ disk' = save_data(customers', accounts')
            /\ call' = Call("remove_customer", customer_id, "True", FALSE, TRUE)
    IN  IF customer_id \notin DOMAIN customers
        THEN cancelled
        ELSE IF customer.account_numbers = << >>
        THEN removed(accounts)
        ELSE IF choice = "1"
        THEN cancelled
        ELSE IF choice = "2"
        THEN IF accounts_with_balance # {} /\ confirm # "CONFIRM"
             THEN /\ accounts' = remaining
                  /\ wrong_run' = [n \in DOMAIN remaining |-> wrong_run[n]]
                  /\ UNCHANGED <<customers, disk>>
                  /\ call' = Call("remove_customer", customer_id, "False", FALSE, FALSE)
             ELSE removed(remaining)
        ELSE cancelled

\* choice and confirm are what input() returns when the call gets to ask
remove_customer(customer_id, choice, confirm) ==
    LET customer == customers[customer_id]
        owned == {customer.account_numbers[i] : i \in 1..Len(customer.account_numbers)}
        accounts_with_balance ==
            {n \in owned \cap DOMAIN accounts : accounts[n].balance # 0}
        cancelled ==
            /\ UNCHANGED <<customers, accounts, disk, wrong_run>>
            /\ call' = Call("remove_customer", customer_id, "False", FALSE, FALSE)
        removed(accs) ==
            /\ accounts' = accs
            /\ wrong_run' = [n \in DOMAIN accs |-> wrong_run[n]]
            /\ customers' = [cid \in DOMAIN customers \ {customer_id} |-> customers[cid]]
            /\ disk' = save_data(customers', accounts')
            /\ call' = Call("remove_customer", customer_id, "True", FALSE, TRUE)
    IN  IF customer_id \notin DOMAIN customers
        THEN cancelled
        ELSE IF customer.account_numbers = << >>
        THEN removed(accounts)
        ELSE IF choice = "1"
        THEN cancelled
        ELSE IF choice = "2"
        THEN IF accounts_with_balance # {} /\ confirm # "CONFIRM"
             THEN cancelled
             ELSE removed([n \in DOMAIN accounts \ owned |-> accounts[n]])
        ELSE cancelled

Ledger(w) ==
    \/ \E c \in w.customer_ids : add_customer(c)
    \/ \E c \in w.customer_ids, ch \in w.choices, cf \in w.confirms :
          remove_customer(c, ch, cf)
    \/ \E c \in w.customer_ids, t \in w.account_types, b \in w.initial_balances,
          p \in w.set_passwords, u \in w.account_numbers :
          \E kw \in (IF lower(t) = "savings" THEN w.savings_kwargs
                                             ELSE w.checking_kwargs) :
              create_account(c, t, b, p, kw, u)
    \/ \E a \in w.account_numbers, m \in w.deposit_amounts : deposit(a, m)
    \/ \E a \in w.account_numbers, m \in w.amounts, p \in w.passwords :
          withdraw(a, m, p)
    \/ \E f \in w.account_numbers, t \in w.account_numbers, m \in w.amounts,
          p \in w.passwords : transfer_funds(f, t, m, p)
    \/ apply_all_interest

Next == Ledger(Teller)

Spec == Init /\ [][Next]_vars

\* the calls of two customers
NextBranch == Ledger(Branch)

SpecBranch == Init /\ [][NextBranch]_vars

\* the program run again and again over the same two files
NextRestart ==
    \/ Ledger(Counter)
    \/ Bank_init

SpecRestart == Init /\ [][NextRestart]_vars

----------------------------------------------------------------------------
(* Properties *)

\* the lowest balance the account's withdraw rule allows
Floor(acc) ==
    IF acc.cls = "SavingsAccount" THEN 0 ELSE -acc.overdraft_limit

\* the accounts present before and after the step, as the same objects: a
\* create_account that returns n has put a new Account under n
Kept(n) ==
    /\ n \in DOMAIN accounts
    /\ n \in DOMAIN accounts'
    /\ ~(call'.op = "create_account" /\ call'.ret = n)

BalancesUnchanged ==
    /\ DOMAIN accounts' = DOMAIN accounts
    /\ \A n \in DOMAIN accounts : accounts'[n].balance = accounts[n].balance

\* C1: in every reachable state every savings account has balance >= 0 and
\* every checking account has balance >= -overdraft_limit.
C1_BalanceAtOrAboveFloor ==
    \A n \in DOMAIN accounts : accounts[n].balance >= Floor(accounts[n])

\* Account.withdraw on every account reached, for every amount
C2_AccountWithdraw ==
    \A n \in DOMAIN accounts : \A m \in Teller.amounts :
        LET acc == accounts[n]
            w == Account_withdraw(acc, m)
        IN  /\ w.ret => /\ w.acc.balance = acc.balance - m
                        /\ w.acc.balance >= Floor(acc)
                        /\ m > 0
            /\ acc.balance - m < Floor(acc) => ~w.ret
            /\ ~w.ret => w.acc = acc

\* a step of Bank.withdraw or Bank.transfer_funds
C2_BankWithdraw ==
    call'.op \in {"withdraw", "transfer_funds"} =>
        /\ call'.ret = "True" =>
              /\ accounts'[call'.id].balance >= Floor(accounts'[call'.id])
              /\ call'.to # call'.id =>
                    accounts'[call'.id].balance =
                        accounts[call'.id].balance - call'.amount
        /\ call'.ret = "False" => BalancesUnchanged

\* C2: a withdraw that succeeds leaves the balance at or above the floor, and
\* one that would take it below the floor fails and leaves the account as it
\* was: of Account.withdraw for every account reached and every amount, and of
\* every Bank.withdraw and Bank.transfer_funds call (the source, when the
\* destination is another account, is down by the amount on success; every
\* balance is as it was on failure).
C2_WithdrawKeepsFloor == [][C2_BankWithdraw]_vars /\ []C2_AccountWithdraw

\* C2 witness: the checking account, overdrawn to its limit by a withdraw
\* that succeeded
C2_Overdrawn ==
    /\ call.op = "withdraw"
    /\ call.ret = "True"
    /\ accounts[call.id].cls = "CheckingAccount"
    /\ accounts[call.id].overdraft_limit = 1
    /\ accounts[call.id].balance = -1

\* three wrong passwords in a row lock; verify_password on a locked account
C3_LockedState ==
    \A n \in DOMAIN accounts :
        /\ wrong_run[n] >= 3 => accounts[n].is_locked
        /\ accounts[n].is_locked =>
              \A p \in Teller.passwords :
                  verify_password(accounts[n], p) = [acc |-> accounts[n], ret |-> FALSE]

\* a step of Bank.withdraw or Bank.transfer_funds from a locked account
C3_LockedCall ==
    ( /\ call'.op \in {"withdraw", "transfer_funds"}
      /\ call'.id \in DOMAIN accounts
      /\ accounts[call'.id].is_locked )
    => /\ call'.ret = "False"
       /\ accounts' = accounts

\* C3: three wrong passwords in a row given to an unlocked account's
\* verify_password (through Bank.withdraw and Bank.transfer_funds) lock it,
\* and on a locked account verify_password returns False for every password
\* and changes nothing, as does every Bank.withdraw and Bank.transfer_funds
\* call that names it as the source.
C3_ThreeWrongPasswordsLock == []C3_LockedState /\ [][C3_LockedCall]_vars

\* C3 witness: after three wrong passwords in a row the account is locked and
\* a further withdraw or transfer_funds from it has returned False
C3_FourthAttempt ==
    /\ call.op \in {"withdraw", "transfer_funds"}
    /\ call.id \in DOMAIN accounts
    /\ wrong_run[call.id] = 3
    /\ accounts[call.id].is_locked
    /\ ~call.verified
    /\ call.ret = "False"

\* C4: an account that is locked stays locked in every step that keeps it,
\* whatever the call.
C4_LockedIsTerminal ==
    [][\A n \in DOMAIN accounts :
           (Kept(n) /\ accounts[n].is_locked) => accounts'[n].is_locked]_vars

\* C4 witness: a deposit has been made to a locked account, which is still
\* locked
C4_LockedAfterDeposit ==
    /\ call.op = "deposit"
    /\ call.ret = "True"
    /\ accounts[call.id].is_locked

\* the source was unlocked and the call's password was the right one
C5_Authorized ==
    /\ call'.id \in DOMAIN accounts
    /\ ~accounts[call'.id].is_locked
    /\ call'.verified
    /\ wrong_run'[call'.id] = 0

C5_Step ==
    call'.op \in {"withdraw", "transfer_funds"} =>
        /\ BalancesUnchanged \/ C5_Authorized
        /\ \A n \in DOMAIN accounts :
               accounts'[n].balance < accounts[n].balance => n = call'.id

\* C5: a Bank.withdraw or Bank.transfer_funds call lowers a balance only of
\* the account it names as the source, and only if that account was unlocked
\* and the password the call was given verified; with a wrong password or a
\* locked source every balance is as it was.
C5_AuthorizationPrecedesDebit == [][C5_Step]_vars

\* C5 witness: a withdraw given the right password has succeeded
C5_DebitAfterVerification ==
    /\ call.op = "withdraw"
    /\ call.ret = "True"
    /\ call.verified
    /\ wrong_run[call.id] = 0

RECURSIVE SumOver(_, _)
SumOver(accs, nums) ==
    IF nums = {}
    THEN 0
    ELSE LET n == CHOOSE x \in nums : TRUE
         IN  accs[n].balance + SumOver(accs, nums \ {n})

\* sum(balances)
SumBalances(accs) == SumOver(accs, DOMAIN accs)

\* the step is a transfer_funds that returned True
TransferSucceeded == call'.op = "transfer_funds" /\ call'.ret = "True"

OthersUnchanged(f, t) ==
    /\ DOMAIN accounts' = DOMAIN accounts
    /\ \A n \in DOMAIN accounts \ {f, t} : accounts'[n] = accounts[n]

\* C6 as stated: when transfer_funds succeeds, also from an account to
\* itself, the sum of the balances is as before, the source is down by
\* amount, the destination is up by amount and no other balance has changed.
C6_TransferMovesAmount ==
    [][TransferSucceeded =>
           LET f == call'.id
               t == call'.to
               m == call'.amount
           IN  /\ SumBalances(accounts') = SumBalances(accounts)
               /\ accounts'[f].balance = accounts[f].balance - m
               /\ accounts'[t].balance = accounts[t].balance + m
               /\ OthersUnchanged(f, t)]_vars

\* C6 amended: when transfer_funds succeeds the sum of the balances is as
\* before and no account but the source and the destination has changed;
\* between two different accounts the source is down by amount and the
\* destination up by amount; from an account to itself its balance is as
\* before.
C6_TransferConserves ==
    [][TransferSucceeded =>
           LET f == call'.id
               t == call'.to
               m == call'.amount
           IN  /\ SumBalances(accounts') = SumBalances(accounts)
               /\ OthersUnchanged(f, t)
               /\ f # t => /\ accounts'[f].balance = accounts[f].balance - m
                           /\ accounts'[t].balance = accounts[t].balance + m
               /\ f = t => accounts'[f].balance = accounts[f].balance]_vars

\* C6 witness: a transfer between two different accounts has succeeded
C6_Transferred ==
    /\ call.op = "transfer_funds"
    /\ call.ret = "True"
    /\ call.to # call.id
    /\ accounts[call.to].balance > 0

\* C7: when transfer_funds returns False every balance is as it was.
C7_FailedTransferChangesNoBalance ==
    [][(call'.op = "transfer_funds" /\ call'.ret = "False")
           => BalancesUnchanged]_vars

\* C7 witness: a transfer_funds given the right password has failed on the
\* source's withdraw rule
C7_RefusedBySource ==
    /\ call.op = "transfer_funds"
    /\ call.ret = "False"
    /\ call.verified
    /\ wrong_run[call.id] = 0

\* C8: every Bank.withdraw and Bank.transfer_funds call that gets to
\* verify_password saves before it returns.
C8_VerificationIsSaved ==
    (call.op \in {"withdraw", "transfer_funds"} /\ call.verified) => call.saved

\* C9: when a call returns, the files hold the customers and accounts as they
\* are in memory, field for field.
C9_SavedIsMemory ==
    call.op # "Bank" =>
        LET memory == save_data(customers, accounts)
        IN  /\ json_load(disk.customer_file) = json_load(memory.customer_file)
            /\ json_load(disk.account_file) = json_load(memory.account_file)

\* C10: the number create_account gives a new account is not the number of an
\* account already in the mapping, so the mapping grows by exactly one.
C10_FreshAccountNumber ==
    [][(call'.op = "create_account" /\ call'.ret # "None") =>
           /\ call'.ret \notin DOMAIN accounts
           /\ Cardinality(DOMAIN accounts') = Cardinality(DOMAIN accounts) + 1]_vars

\* the numbers the customer lists
OwnedNumbers(cust) ==
    {cust.account_numbers[i] : i \in 1..Len(cust.account_numbers)}

\* the customer lists a number whose account holds a balance other than 0
OwnsBalance(c) ==
    \E n \in OwnedNumbers(customers[c]) \cap DOMAIN accounts : accounts[n].balance # 0

\* remove_customer(c, choice, confirm) does not complete: the customer is
\* unknown, or has accounts and the choice is to cancel, or is not a choice,
\* or an account holds a balance and confirm is not the literal
DoesNotComplete(c, choice, confirm) ==
    \/ c \notin DOMAIN customers
    \/ /\ customers[c].account_numbers # << >>
       /\ \/ choice # "2"
          \/ OwnsBalance(c) /\ confirm # "CONFIRM"

\* C11: a remove_customer call that does not complete (unknown customer, the
\* cancel choice, a choice that is neither, or a confirmation that is not
\* CONFIRM when an account listed holds a balance) returns False, and every
\* remove_customer call that returns False leaves the customers, the accounts
\* with every field, and the two files as they were.
C11_CancelledRemovalChangesNothing ==
    [][call'.op = "remove_customer" =>
           /\ \A c \in Teller.customer_ids, ch \in Teller.choices, cf \in Teller.confirms :
                  (remove_customer(c, ch, cf) /\ DoesNotComplete(c, ch, cf))
                      => call'.ret = "False"
           /\ call'.ret = "False" => UNCHANGED <<customers, accounts, disk>>]_vars

\* C11 witness: a remove_customer of a customer whose account holds a balance
\* has returned False
C11_RemovalRefused ==
    /\ call.op = "remove_customer"
    /\ call.ret = "False"
    /\ call.id \in DOMAIN customers
    /\ OwnsBalance(call.id)

\* C12: when remove_customer(c) returns True, c is no longer a customer, no
\* number c listed is still an account, every other customer and every account
\* under a number c did not list is as it was, the files hold the new
\* mappings, and if an account c listed held a balance the choice was "2" and
\* the confirmation CONFIRM.
C12_RemovalIsComplete ==
    [][(call'.op = "remove_customer" /\ call'.ret = "True") =>
           LET c == call'.id
               owned == OwnedNumbers(customers[c])
           IN  /\ c \notin DOMAIN customers'
               /\ DOMAIN customers' = DOMAIN customers \ {c}
               /\ \A d \in DOMAIN customers' : customers'[d] = customers[d]
               /\ DOMAIN accounts' = DOMAIN accounts \ owned
               /\ \A n \in DOMAIN accounts' : accounts'[n] = accounts[n]
               /\ disk' = save_data(customers', accounts')
               /\ OwnsBalance(c) =>
                      \A ch \in Branch.choices, cf \in Branch.confirms :
                          remove_customer(c, ch, cf) => (ch = "2" /\ cf = "CONFIRM")]_vars

\* C12 witness: a customer has been removed, and the other customer still has
\* an account holding a balance
C12_OtherCustomerKept ==
    /\ call.op = "remove_customer"
    /\ call.ret = "True"
    /\ \E d \in DOMAIN customers :
           \E n \in OwnedNumbers(customers[d]) \cap DOMAIN accounts :
               /\ accounts[n].account_holder_id = d
               /\ accounts[n].balance # 0

\* C13: for the customers and accounts of every reachable state, what
\* _load_data makes of the files _save_data writes for them is the same
\* customers (with the same account_numbers in the same order) and the same
\* accounts (class, holder, balance, password_hash, failed_attempts, is_locked
\* and interest_rate or overdraft_limit).
C13_RoundTrip ==
    load_data(save_data(customers, accounts)) =
        [customers |-> customers, accounts |-> accounts]

\* C13 witness: the program has been started over files that hold a customer
\* with two accounts, a savings and a checking account, one of them locked
C13_Reloaded ==
    /\ call.op = "Bank"
    /\ \E c \in DOMAIN customers : Len(customers[c].account_numbers) = 2
    /\ \E n, m \in DOMAIN accounts :
           /\ accounts[n].cls = "SavingsAccount"
           /\ accounts[m].cls = "CheckingAccount"
           /\ accounts[n].is_locked
           /\ accounts[n].failed_attempts = 3
           /\ accounts[n].password_hash # ""

\* C14: a Bank.withdraw that names a number with no account, or an account
\* that is locked, returns False without getting to getpass and
\* verify_password, and leaves the customers, the accounts with every field
\* and the two files as they were.
C14_UnknownOrLockedFailsAtOnce ==
    [][( /\ call'.op = "withdraw"
         /\ \/ call'.id \notin DOMAIN accounts
            \/ accounts[call'.id].is_locked )
       => /\ call'.ret = "False"
          /\ ~call'.verified
          /\ ~call'.saved
          /\ UNCHANGED <<customers, accounts, disk>>]_vars

\* C14 witness: a withdraw from a locked account that holds money has
\* returned False without a verification
C14_LockedRefused ==
    /\ call.op = "withdraw"
    /\ call.ret = "False"
    /\ ~call.verified
    /\ call.id \in DOMAIN accounts
    /\ accounts[call.id].is_locked
    /\ accounts[call.id].balance > 0

\* what may be given as a password
Plaintexts == {"", "pw", "bad"}

\* the accounts of the Branch world, each created with the empty password
C15_NoPasswordState ==
    \A n \in DOMAIN accounts :
        /\ accounts[n].password_hash = ""
        /\ \A p \in Plaintexts : ~verify_password(accounts[n], p).ret
        /\ wrong_run[n] >= 3 => accounts[n].is_locked

\* a step of Bank.withdraw or Bank.transfer_funds in the Branch world
C15_NoPasswordCall ==
    call'.op \in {"withdraw", "transfer_funds"} =>
        /\ call'.ret = "False"
        /\ BalancesUnchanged
        /\ call'.verified =>
              LET before == accounts[call'.id]
                  after == accounts'[call'.id]
              IN  /\ after.failed_attempts = before.failed_attempts + 1
                  /\ after.is_locked = (after.failed_attempts >= 3)

\* C15: an account created with the empty password has the empty
\* password_hash, and verify_password returns False on it for every
\* plaintext, the empty one included; every Bank.withdraw and
\* Bank.transfer_funds from it returns False and moves no money, each one that
\* gets to verify_password counts one more failed attempt, and the third
\* locks the account.
C15_NoPasswordNeverVerifies == []C15_NoPasswordState /\ [][C15_NoPasswordCall]_vars

\* C15 witness: an account without a password, holding money, locked by
\* three attempts, the last of them a transfer_funds
C15_LockedWithoutPassword ==
    /\ call.op = "transfer_funds"
    /\ call.verified
    /\ accounts[call.id].password_hash = ""
    /\ accounts[call.id].balance >= 1
    /\ accounts[call.id].failed_attempts = 3
    /\ accounts[call.id].is_locked
    /\ wrong_run[call.id] = 3

\* Scenario A: balance 100 at interest_rate 0.01 (1 hundredth) becomes 101
C16_ScenarioA ==
    apply_interest(SavingsAccount_init("a1", "c1", 100, "pw", 1)).balance = 101

\* C16: apply_all_interest leaves the same accounts; each savings account,
\* locked or not, has balance + balance * interest_rate as its balance (100
\* times the new balance is the old balance times 100 + interest_rate, the
\* rate being held in hundredths) and every other field as it was; each
\* checking account is as it was; and the files hold the new mappings.
\* apply_interest takes balance 100 at rate 0.01 to 101.
C16_InterestOnEverySavingsAccount ==
    [][call'.op = "apply_all_interest" =>
           /\ DOMAIN accounts' = DOMAIN accounts
           /\ \A n \in DOMAIN accounts :
                  LET before == accounts[n]
                      after == accounts'[n]
                  IN  IF before.cls = "SavingsAccount"
                      THEN /\ 100 * after.balance =
                                  before.balance * (100 + before.interest_rate)
                           /\ [after EXCEPT !.balance = before.balance] = before
                      ELSE after = before
           /\ customers' = customers
           /\ call'.saved
           /\ disk' = save_data(customers', accounts')]_vars
    /\ []C16_ScenarioA

\* C16 witness: apply_all_interest has run over a locked savings account that
\* holds a balance and a checking account
C16_InterestOnLocked ==
    /\ call.op = "apply_all_interest"
    /\ \E n, m \in DOMAIN accounts :
           /\ accounts[n].cls = "SavingsAccount"
           /\ accounts[n].is_locked
           /\ accounts[n].balance = 2
           /\ accounts[n].interest_rate = 100
           /\ accounts[m].cls = "CheckingAccount"

\* the amounts <= 0 among those the calls are made with
NonPositive == {m \in Teller.amounts \cup Teller.deposit_amounts : m <= 0}

\* Account.deposit and Account.withdraw with an amount <= 0, on every account
\* reached
C17_OnTheAccount ==
    \A n \in DOMAIN accounts : \A m \in NonPositive :
        /\ Account_deposit(accounts[n], m) = [acc |-> accounts[n], ret |-> FALSE]
        /\ Account_withdraw(accounts[n], m) = [acc |-> accounts[n], ret |-> FALSE]

\* a Bank.deposit step with an amount <= 0 or a number with no account
C17_BankDeposit ==
    call'.op = "deposit" =>
        \A a \in {call'.id}, m \in Teller.deposit_amounts :
            (deposit(a, m) /\ (m <= 0 \/ a \notin DOMAIN accounts)) =>
                /\ call'.ret = "False"
                /\ ~call'.saved
                /\ UNCHANGED <<customers, accounts, disk>>

\* a Bank.withdraw step with an amount <= 0, as C17 states it
C17_BankWithdrawAsStated ==
    call'.op = "withdraw" =>
        \A a \in {call'.id}, m \in NonPositive, p \in Teller.passwords :
            withdraw(a, m, p) =>
                /\ call'.ret = "False"
                /\ a \in DOMAIN accounts =>
                      /\ accounts'[a].balance = accounts[a].balance
                      /\ accounts'[a].failed_attempts = accounts[a].failed_attempts
                      /\ accounts'[a].is_locked = accounts[a].is_locked

\* a Bank.withdraw step with an amount <= 0: the account is changed by
\* verify_password alone
C17_BankWithdraw ==
    call'.op = "withdraw" =>
        \A a \in {call'.id}, m \in NonPositive, p \in Teller.passwords :
            withdraw(a, m, p) =>
                /\ call'.ret = "False"
                /\ BalancesUnchanged
                /\ a \in DOMAIN accounts =>
                      accounts' = [accounts EXCEPT ![a] =
                                      IF @.is_locked THEN @
                                      ELSE verify_password(@, p).acc]

\* C17 as stated: a deposit or withdraw with an amount <= 0 returns False and
\* leaves the account's balance, failed_attempts and is_locked as they were,
\* on the account itself and through Bank.deposit and Bank.withdraw; a
\* Bank.deposit to a number with no account returns False, changes nothing
\* and saves nothing.
C17_NonPositiveAmountChangesNothing ==
    []C17_OnTheAccount /\ [][C17_BankDeposit /\ C17_BankWithdrawAsStated]_vars

\* C17 amended: Account.deposit and Account.withdraw with an amount <= 0
\* return False and leave the account as it was; Bank.deposit with an amount
\* <= 0, or to a number with no account, returns False, changes nothing and
\* saves nothing; Bank.withdraw with an amount <= 0 returns False and leaves
\* every balance as it was, and changes the account it names only as the
\* verify_password it makes on an unlocked account does.
C17_NonPositiveAmountMovesNothing ==
    []C17_OnTheAccount /\ [][C17_BankDeposit /\ C17_BankWithdraw]_vars

\* C17 witness: a withdraw of an amount <= 0, given a wrong password, has
\* returned False and counted a failed attempt
C17_RefusedAfterVerification ==
    /\ call.op = "withdraw"
    /\ call.ret = "False"
    /\ call.verified
    /\ accounts[call.id].balance = 2
    /\ accounts[call.id].cls = "SavingsAccount"
    /\ accounts[call.id].failed_attempts = 1

\* Scenario C: the right password and a withdraw of 30 from a balance of 100,
\* after two wrong passwords
C18_ScenarioC ==
    LET acc == [SavingsAccount_init("a1", "c1", 100, "pw", 1)
                    EXCEPT !.failed_attempts = 2]
        v == verify_password(acc, "pw")
        w == Account_withdraw(v.acc, 30)
    IN  /\ v.ret
        /\ w.ret
        /\ w.acc.balance = 70
        /\ w.acc.failed_attempts = 0

\* a locked account has had three wrong passwords in a row
C18_LockedByARunOfThree ==
    \A n \in DOMAIN accounts :
        accounts[n].is_locked => wrong_run[n] = MaxFailedAttempts

\* a step of Bank.withdraw or Bank.transfer_funds given the right password
C18_ResetOnSuccess ==
    ( /\ call'.op \in {"withdraw", "transfer_funds"}
      /\ call'.verified
      /\ wrong_run'[call'.id] = 0 )
    => /\ accounts'[call'.id].failed_attempts = 0
       /\ ~accounts'[call'.id].is_locked

\* C18: after a verify_password that succeeds on an unlocked account its
\* failed_attempts is 0 (the right password and a withdraw of 30 from 100
\* leave balance 70 and failed_attempts 0), and an account is locked only
\* after three wrong passwords in a row: one whose runs of wrong passwords
\* between successful verifications are at most 2 long is never locked.
C18_OnlyConsecutiveFailuresLock ==
    /\ []C18_ScenarioC
    /\ []C18_LockedByARunOfThree
    /\ [][C18_ResetOnSuccess]_vars

\* C19: in every reachable state every account has failed_attempts from 0
\* to 3, and verify_password on a locked account returns False for every
\* plaintext and leaves every field of the account as it was.
C19_AttemptsWithinThree ==
    \A n \in DOMAIN accounts :
        /\ accounts[n].failed_attempts \in 0..MaxFailedAttempts
        /\ accounts[n].is_locked =>
              \A p \in Plaintexts :
                  verify_password(accounts[n], p) = [acc |-> accounts[n], ret |-> FALSE]

\* C19 witness: a locked account with three failed attempts, whose own
\* password would otherwise verify, has been named as the source of a
\* transfer_funds
C19_LockedAtThree ==
    /\ call.op = "transfer_funds"
    /\ call.id \in DOMAIN accounts
    /\ accounts[call.id].is_locked
    /\ accounts[call.id].failed_attempts = 3
    /\ accounts[call.id].password_hash = hash_password("pw")

\* C20: in every reachable state an account is locked exactly if its
\* failed_attempts is 3, and an unlocked account has failed_attempts 0, 1 or 2.
C20_LockedIffThreeAttempts ==
    \A n \in DOMAIN accounts :
        /\ accounts[n].is_locked <=> accounts[n].failed_attempts = MaxFailedAttempts
        /\ ~accounts[n].is_locked => accounts[n].failed_attempts \in 0..(MaxFailedAttempts - 1)

\* C20 witness: the program has been started over files that hold a locked
\* account with three failed attempts and an unlocked one with two
C20_LockedAndNearlyLocked ==
    /\ call.op = "Bank"
    /\ \E n, m \in DOMAIN accounts :
           /\ accounts[n].is_locked
           /\ accounts[n].failed_attempts = 3
           /\ ~accounts[m].is_locked
           /\ accounts[m].failed_attempts = 2

\* C21: in every reachable state every account names as its
\* account_holder_id a customer of the mapping who lists the account's number,
\* no number is listed by two customers, and every account that
\* get_customer_accounts(c) returns has account_holder_id c.
C21_OwnershipConsistent ==
    /\ \A n \in DOMAIN accounts :
           /\ accounts[n].account_holder_id \in DOMAIN customers
           /\ InSeq(n, customers[accounts[n].account_holder_id].account_numbers)
    /\ \A c, d \in DOMAIN customers :
           c # d => OwnedNumbers(customers[c]) \cap OwnedNumbers(customers[d]) = {}
    /\ \A c \in DOMAIN customers :
           LET returned == get_customer_accounts(c)
           IN  \A i \in 1..Len(returned) : returned[i].account_holder_id = c

\* transfer_funds(f, t, m, p) gets to from_acc.withdraw(m) and it succeeds
SourceDebited(f, t, m, p) ==
    /\ f \in DOMAIN accounts
    /\ t \in DOMAIN accounts
    /\ m > 0
    /\ ~accounts[f].is_locked
    /\ verify_password(accounts[f], p).ret
    /\ Account_withdraw(verify_password(accounts[f], p).acc, m).ret

\* where transfer_funds debits the source, to_acc.deposit of the same amount
\* succeeds, whatever the destination's class and lock
C22_DepositFollowsDebit ==
    \A f \in Teller.account_numbers, t \in Teller.account_numbers,
       m \in Teller.amounts, p \in Teller.passwords :
        SourceDebited(f, t, m, p) =>
            LET v == verify_password(accounts[f], p)
                w == Account_withdraw(v.acc, m)
                withdrawn == [accounts EXCEPT ![f] = w.acc]
            IN  Account_deposit(withdrawn[t], m).ret

\* a transfer_funds step that returns False has not debited the source
C22_NoFailureAfterDebit ==
    (call'.op = "transfer_funds" /\ call'.ret = "False" /\ call'.verified) =>
        \A t \in Teller.account_numbers, m \in Teller.amounts, p \in Teller.passwords :
            transfer_funds(call'.id, t, m, p) => ~SourceDebited(call'.id, t, m, p)

\* C22: in every reachable state, for every transfer_funds call in which the
\* source's withdraw succeeds, the destination's deposit of the same amount
\* succeeds, so the roll-back is not taken; and no transfer_funds call that
\* returns False has debited the source.
C22_RollbackNeverRuns == []C22_DepositFollowsDebit /\ [][C22_NoFailureAfterDebit]_vars

\* C22 witness: a transfer_funds to a locked account of the other class has
\* succeeded
C22_CreditedLocked ==
    /\ call.op = "transfer_funds"
    /\ call.ret = "True"
    /\ call.to # call.id
    /\ accounts[call.to].is_locked
    /\ accounts[call.to].cls # accounts[call.id].cls

====
